---- MODULE Spec2Model ----
(***************************************************************************)
(* Chess with AI (main.py): the evaluator, the move orderer, the           *)
(* alpha-beta search and the game loop that alternates the human (White)   *)
(* with the engine (Black), over a model of the rules engine (the chess    *)
(* library's Board: legal moves, push/pop, terminal tests).                *)
(*                                                                         *)
(* The rules engine is modelled for positions without castling rights;     *)
(* every other rule (sliding pieces, pawns with double step, en passant    *)
(* and promotion, check, the draw tests of is_game_over) is modelled.      *)
(***************************************************************************)
EXTENDS Integers, Sequences, FiniteSets, TLC

\* ------------------------------------------------------------ constants
DIMENSION == 8

PAWN == 1
KNIGHT == 2
BISHOP == 3
ROOK == 4
QUEEN == 5
KING == 6

WHITE == TRUE
BLACK == FALSE

\* float('-inf') and float('inf'): integers beyond every score the evaluator
\* can return (material of one side is below 20000 + 9 * 900 + 6 * 500).
NegInf == -1000000
PosInf == 1000000

\* ---------------------------------------------------------------- bounds
\* find_best_move(board, depth): the depths drawn for a run, 1..MaxDepth.
MaxDepth == 3
\* The game loop stops taking moves once this many moves were played.
MaxPlies == 2

\* --------------------------------------------------------------- helpers
Abs(x) == IF x < 0 THEN -x ELSE x
Sgn(x) == IF x < 0 THEN -1 ELSE IF x > 0 THEN 1 ELSE 0
Max(a, b) == IF a >= b THEN a ELSE b
Min(a, b) == IF a <= b THEN a ELSE b

RECURSIVE Flatten(_)
Flatten(ss) == IF ss = <<>> THEN <<>> ELSE Head(ss) \o Flatten(Tail(ss))

Range(s) == {s[i] : i \in 1..Len(s)}

\* ------------------------------------------------------- squares, pieces
SQUARES == 0..(DIMENSION * DIMENSION - 1)
square(col, row) == row * DIMENSION + col
square_file(s) == s % DIMENSION
square_rank(s) == s \div DIMENSION

\* Squares from the highest to the lowest: the order in which the library
\* scans a set of squares.
DescSquares == [i \in 1..(DIMENSION * DIMENSION) |-> DIMENSION * DIMENSION - i]

\* A piece is an integer: its type, positive for White, negative for Black.
\* A placement maps the occupied squares to their pieces; at() is 0 on an
\* empty square.
piece_type(p) == Abs(p)
piece_color(p) == p > 0
Piece(type, color) == IF color THEN type ELSE -type
at(pieces, s) == IF s \in DOMAIN pieces THEN pieces[s] ELSE 0

Move(from, to, promo) == [from_square |-> from, to_square |-> to, promotion |-> promo]

\* The squares strictly between a and b on a rank, file or diagonal.
Between(a, b) ==
  LET df == square_file(b) - square_file(a)
      dr == square_rank(b) - square_rank(a)
      n == Max(Abs(df), Abs(dr))
  IN {a + k * (Sgn(df) + DIMENSION * Sgn(dr)) : k \in 1..(n - 1)}

\* The piece on square a attacks square b.
attacks(pieces, a, b) ==
  LET p == at(pieces, a)
      t == piece_type(p)
      df == square_file(b) - square_file(a)
      dr == square_rank(b) - square_rank(a)
      clear == \A s \in Between(a, b) : s \notin DOMAIN pieces
  IN /\ a # b
     /\ p # 0
     /\ CASE t = KNIGHT -> {Abs(df), Abs(dr)} = {1, 2}
          [] t = KING -> Abs(df) <= 1 /\ Abs(dr) <= 1
          [] t = PAWN -> Abs(df) = 1 /\ dr = (IF p > 0 THEN 1 ELSE -1)
          [] t = ROOK -> (df = 0 \/ dr = 0) /\ clear
          [] t = BISHOP -> Abs(df) = Abs(dr) /\ clear
          [] t = QUEEN -> (df = 0 \/ dr = 0 \/ Abs(df) = Abs(dr)) /\ clear

is_attacked_by(pieces, color, sq) ==
  \E a \in DOMAIN pieces :
    piece_color(pieces[a]) = color /\ attacks(pieces, a, sq)

king(pieces, color) == CHOOSE s \in DOMAIN pieces : pieces[s] = Piece(KING, color)

\* ----------------------------------------------------------------- Board
\* board.piece_at(square), 0 for None
piece_at(b, s) == at(b.pieces, s)

\* board.is_check(): the king of the side to move is attacked.
is_check(b) == is_attacked_by(b.pieces, ~b.turn, king(b.pieces, b.turn))

is_en_passant(b, m) ==
  /\ b.ep_square = m.to_square
  /\ piece_type(piece_at(b, m.from_square)) = PAWN
  /\ Abs(m.to_square - m.from_square) \in {DIMENSION - 1, DIMENSION + 1}
  /\ piece_at(b, m.to_square) = 0

\* board.is_capture(move)
is_capture(b, m) ==
  \/ (piece_at(b, m.to_square) # 0 /\ piece_color(piece_at(b, m.to_square)) # b.turn)
  \/ is_en_passant(b, m)

\* The piece placement after the move.
PiecesAfter(b, m) ==
  LET p == piece_at(b, m.from_square)
      capSq == IF b.turn THEN m.to_square - DIMENSION ELSE m.to_square + DIMENSION
      gone == IF is_en_passant(b, m) THEN {m.from_square, capSq}
              ELSE {m.from_square}
      placed == IF m.promotion # 0 THEN Piece(m.promotion, b.turn) ELSE p
  IN [s \in (DOMAIN b.pieces \ gone) \cup {m.to_square} |->
        IF s = m.to_square THEN placed ELSE b.pieces[s]]

\* The state the library saves on push and restores on pop.
Snapshot(b) ==
  [pieces |-> b.pieces, turn |-> b.turn, ep_square |-> b.ep_square,
   halfmove_clock |-> b.halfmove_clock, fullmove_number |-> b.fullmove_number]

\* board.push(move)
push(b, m) ==
  LET p == piece_at(b, m.from_square)
      pawn == piece_type(p) = PAWN
      diff == m.to_square - m.from_square
      zeroing == pawn \/ is_capture(b, m)
  IN [pieces |-> PiecesAfter(b, m),
      turn |-> ~b.turn,
      ep_square |->
        IF pawn /\ diff = 2 * DIMENSION /\ square_rank(m.from_square) = 1
          THEN m.from_square + DIMENSION
        ELSE IF pawn /\ diff = -2 * DIMENSION
                /\ square_rank(m.from_square) = DIMENSION - 2
          THEN m.from_square - DIMENSION
        ELSE -1,
      halfmove_clock |-> IF zeroing THEN 0 ELSE b.halfmove_clock + 1,
      fullmove_number |-> IF b.turn = BLACK THEN b.fullmove_number + 1
                          ELSE b.fullmove_number,
      move_stack |-> Append(b.move_stack, m),
      stack |-> Append(b.stack, Snapshot(b))]

\* board.pop()
pop(b) ==
  LET s == b.stack[Len(b.stack)]
  IN [pieces |-> s.pieces, turn |-> s.turn, ep_square |-> s.ep_square,
      halfmove_clock |-> s.halfmove_clock, fullmove_number |-> s.fullmove_number,
      move_stack |-> SubSeq(b.move_stack, 1, Len(b.move_stack) - 1),
      stack |-> SubSeq(b.stack, 1, Len(b.stack) - 1)]

\* -------------------------------------------------- legal move generation
Own(b, s) == s \in DOMAIN b.pieces /\ piece_color(b.pieces[s]) = b.turn
Enemy(b, s) == s \in DOMAIN b.pieces /\ piece_color(b.pieces[s]) # b.turn
Forward(b) == IF b.turn THEN DIMENSION ELSE -DIMENSION
IsBackRank(s) == square_rank(s) \in {0, DIMENSION - 1}

\* A pawn move to square `to`: four promotions on the last rank, in the
\* library's order, else the plain move.
PawnMoveTo(from, to) ==
  IF IsBackRank(to)
    THEN <<Move(from, to, QUEEN), Move(from, to, ROOK),
           Move(from, to, BISHOP), Move(from, to, KNIGHT)>>
    ELSE <<Move(from, to, 0)>>

\* Moves of the pieces (not pawns) on the squares `froms`.
PieceMoves(b, froms) ==
  Flatten([i \in 1..Len(froms) |->
    LET tos == SelectSeq(DescSquares,
                 LAMBDA t : attacks(b.pieces, froms[i], t) /\ ~Own(b, t))
    IN [j \in 1..Len(tos) |-> Move(froms[i], tos[j], 0)]])

PawnCaptures(b, pawns) ==
  Flatten([i \in 1..Len(pawns) |->
    LET tos == SelectSeq(DescSquares,
                 LAMBDA t : attacks(b.pieces, pawns[i], t) /\ Enemy(b, t))
    IN Flatten([j \in 1..Len(tos) |-> PawnMoveTo(pawns[i], tos[j])])])

PawnSingle(b, pawns) ==
  LET ok == SelectSeq(pawns, LAMBDA f :
              f + Forward(b) \in SQUARES /\ piece_at(b, f + Forward(b)) = 0)
  IN Flatten([i \in 1..Len(ok) |-> PawnMoveTo(ok[i], ok[i] + Forward(b))])

PawnDouble(b, pawns) ==
  LET home == IF b.turn THEN 1 ELSE DIMENSION - 2
      ok == SelectSeq(pawns, LAMBDA f :
              /\ square_rank(f) = home
              /\ piece_at(b, f + Forward(b)) = 0
              /\ piece_at(b, f + 2 * Forward(b)) = 0)
  IN [i \in 1..Len(ok) |-> Move(ok[i], ok[i] + 2 * Forward(b), 0)]

PawnEnPassant(b, pawns) ==
  IF b.ep_square = -1 \/ piece_at(b, b.ep_square) # 0 THEN <<>>
  ELSE LET ok == SelectSeq(pawns, LAMBDA f : attacks(b.pieces, f, b.ep_square))
       IN [i \in 1..Len(ok) |-> Move(ok[i], b.ep_square, 0)]

\* board.generate_pseudo_legal_moves over the pieces on `froms` (descending):
\* piece moves, pawn captures, single and double pawn moves, en passant.
PseudoLegal(b, froms) ==
  LET pieces == SelectSeq(froms, LAMBDA s : piece_type(piece_at(b, s)) # PAWN)
      pawns == SelectSeq(froms, LAMBDA s : piece_type(piece_at(b, s)) = PAWN)
  IN PieceMoves(b, pieces) \o PawnCaptures(b, pawns) \o PawnSingle(b, pawns)
       \o PawnDouble(b, pawns) \o PawnEnPassant(b, pawns)

\* The mover's king is not attacked after the move.
IsSafe(b, m) ==
  LET after == PiecesAfter(b, m)
  IN ~is_attacked_by(after, ~b.turn, king(after, b.turn))

\* board.legal_moves, in the order the library generates it: in check the
\* king's moves come first, then the other pieces' evasions.
legal_moves(b) ==
  LET own == SelectSeq(DescSquares, LAMBDA s : Own(b, s))
      k == king(b.pieces, b.turn)
      cand == IF is_check(b)
                THEN PseudoLegal(b, <<k>>)
                       \o PseudoLegal(b, SelectSeq(own, LAMBDA s : s # k))
                ELSE PseudoLegal(b, own)
  IN SelectSeq(cand, LAMBDA m : IsSafe(b, m))

is_legal(b, m) == m \in Range(legal_moves(b))

\* board.gives_check(move)
gives_check(b, m) == is_check(push(b, m))

is_checkmate(b) == is_check(b) /\ legal_moves(b) = <<>>
is_stalemate(b) == ~is_check(b) /\ legal_moves(b) = <<>>

\* board.pieces(piece_type, color)
pieces_of(b, type, color) ==
  {s \in DOMAIN b.pieces : b.pieces[s] = Piece(type, color)}

IsLight(s) == (square_file(s) + square_rank(s)) % 2 = 1

has_insufficient_material(b, color) ==
  LET mine(t) == pieces_of(b, t, color)
      theirs(t) == pieces_of(b, t, ~color)
      bishops == mine(BISHOP) \cup theirs(BISHOP)
  IN IF mine(PAWN) \cup mine(ROOK) \cup mine(QUEEN) # {} THEN FALSE
     ELSE IF mine(KNIGHT) # {}
       THEN /\ Cardinality(mine(KNIGHT)) + Cardinality(mine(BISHOP)) <= 1
            /\ theirs(PAWN) \cup theirs(KNIGHT) \cup theirs(BISHOP)
                 \cup theirs(ROOK) = {}
     ELSE IF mine(BISHOP) # {}
       THEN /\ (\A s \in bishops : IsLight(s)) \/ (\A s \in bishops : ~IsLight(s))
            /\ mine(PAWN) \cup theirs(PAWN) = {}
            /\ mine(KNIGHT) \cup theirs(KNIGHT) = {}
     ELSE TRUE

is_insufficient_material(b) ==
  has_insufficient_material(b, WHITE) /\ has_insufficient_material(b, BLACK)

is_seventyfive_moves(b) == b.halfmove_clock >= 150 /\ legal_moves(b) # <<>>

\* The position's key for repetition: placement, side to move and the en
\* passant square when an en passant capture is legal.
RepetitionKey(s) ==
  <<s.pieces, s.turn,
    IF s.ep_square # -1
       /\ \E m \in Range(legal_moves(s)) : is_en_passant(s, m)
      THEN s.ep_square ELSE -1>>

is_fivefold_repetition(b) ==
  Cardinality({i \in 1..Len(b.stack) :
     /\ b.stack[i].pieces = b.pieces
     /\ b.stack[i].turn = b.turn
     /\ RepetitionKey(b.stack[i]) = RepetitionKey(b)}) >= 4

\* board.is_game_over()
is_game_over(b) ==
  \/ is_checkmate(b)
  \/ is_insufficient_material(b)
  \/ is_stalemate(b)
  \/ is_seventyfive_moves(b)
  \/ is_fivefold_repetition(b)

\* ------------------------------------------------------------- Evaluator
piece_values ==
  [t \in PAWN..KING |->
     CASE t = PAWN -> 100
       [] t = KNIGHT -> 320
       [] t = BISHOP -> 330
       [] t = ROOK -> 500
       [] t = QUEEN -> 900
       [] t = KING -> 20000]

RECURSIVE SumOver(_, _)
SumOver(f, S) ==
  IF S = {} THEN 0
  ELSE LET x == CHOOSE y \in S : TRUE IN f[x] + SumOver(f, S \ {x})

\* The material term: White's pieces minus Black's, weighted.
Material(b) ==
  SumOver([t \in PAWN..KING |->
             Cardinality(pieces_of(b, t, WHITE)) * piece_values[t]
             - Cardinality(pieces_of(b, t, BLACK)) * piece_values[t]],
          PAWN..KING)

\* The mobility term, as added to the White-relative sum.
Mobility(b) ==
  IF b.turn THEN 10 * Len(legal_moves(b)) ELSE -10 * Len(legal_moves(b))

\* The check term, as added to the White-relative sum.
CheckTerm(b) == IF is_check(b) THEN (IF b.turn THEN 50 ELSE -50) ELSE 0

\* return eval if board.turn else -eval
FromSideToMove(b, eval) == IF b.turn THEN eval ELSE -eval

\* evaluate_board without the stalemate test.
evaluate_board_no_stalemate(b) ==
  IF is_checkmate(b) THEN (IF b.turn THEN -9999 ELSE 9999)
  ELSE IF is_insufficient_material(b) THEN 0
  ELSE FromSideToMove(b, Material(b) + Mobility(b) + CheckTerm(b))

evaluate_board(b) ==
  IF is_checkmate(b) THEN (IF b.turn THEN -9999 ELSE 9999)
  ELSE IF is_stalemate(b) \/ is_insufficient_material(b) THEN 0
  ELSE FromSideToMove(b, Material(b) + Mobility(b) + CheckTerm(b))

\* ----------------------------------------------------------- Move orderer
move_score(b, m) ==
  (IF is_capture(b, m) THEN 1000 ELSE 0)
  + (IF gives_check(b, m) THEN 500 ELSE 0)
  + (IF m.promotion # 0 THEN 800 ELSE 0)

\* A descending sort that reverses equal keys (an ascending sort, reversed).
RECURSIVE sorted_then_reversed(_, _)
sorted_then_reversed(key, k) ==
  IF k = 0 THEN <<>>
  ELSE LET prev == sorted_then_reversed(key, k - 1)
       IN SelectSeq(prev, LAMBDA i : key[i] > key[k]) \o <<k>>
            \o SelectSeq(prev, LAMBDA i : key[i] <= key[k])

\* sorted(..., reverse=True) on the keys key[1..k]: the indices 1..k in
\* descending key order, equal keys in their original order.
RECURSIVE sorted_reverse(_, _)
sorted_reverse(key, k) ==
  IF k = 0 THEN <<>>
  ELSE LET prev == sorted_reverse(key, k - 1)
       IN SelectSeq(prev, LAMBDA i : key[i] >= key[k]) \o <<k>>
            \o SelectSeq(prev, LAMBDA i : key[i] < key[k])

\* The moves ms taken in the order of the indices idx.
InOrder(ms, idx) == [k \in 1..Len(ms) |-> ms[idx[k]]]

\* sorted(ms, key=move_score, reverse=True)
sorted_moves(b, ms) ==
  InOrder(ms, sorted_reverse([i \in 1..Len(ms) |-> move_score(b, ms[i])], Len(ms)))

order_moves(b) == sorted_moves(b, legal_moves(b))

\* ---------------------------------------------------------- Search engine
\* Python's None, where a move is expected.
None == Move(-1, -1, 0)

\* `if ai_move:` -- None is false, and so is a move whose fields are all 0.
Truthy(m) ==
  m # None /\ (m.from_square # 0 \/ m.to_square # 0 \/ m.promotion # 0)

\* The cutoff test with its operands exchanged.
CutoffReversed(alpha, beta) == alpha <= beta

\* The cutoff test of both loops.
Cutoff(alpha, beta) == beta <= alpha

\* One activation of find_best_move or minimax_alpha_beta: its arguments and
\* locals, its position in the loop (i: the index in `moves` of the move
\* being tried, or to try next), whether it has returned and with what.
\* entry, alpha0, beta0, visited, cutAt and cuts record the call for the
\* properties: the board and window at the call, the moves pushed so far,
\* the number of moves tried when beta <= alpha first held after a fold,
\* and the number of calls below this one that returned after a cutoff.
\* An activation is created at its first loop test, or returned from its
\* base case: it is done when it has no move to try.
Frame(fn, b, depth, alpha, beta, is_max, moves, best, value) ==
  [fn |-> fn, depth |-> depth, alpha |-> alpha, beta |-> beta,
   is_maximizing |-> is_max, moves |-> moves, i |-> 1,
   best_eval |-> best, best_move |-> None, done |-> moves = <<>>, value |-> value,
   entry |-> b, alpha0 |-> alpha, beta0 |-> beta, visited |-> <<>>, cutAt |-> 0,
   cuts |-> 0]

\* max_eval = float('-inf'), min_eval = float('inf')
Worst(is_max) == IF is_max THEN NegInf ELSE PosInf

\* minimax_alpha_beta up to its first loop test: the base case returns the
\* evaluation; otherwise the moves are ordered and the loop starts.
Enter(b, depth, alpha, beta, is_max) ==
  IF depth = 0 \/ is_game_over(b)
    THEN Frame("minimax_alpha_beta", b, depth, alpha, beta, is_max, <<>>,
               0, evaluate_board(b))
    ELSE Frame("minimax_alpha_beta", b, depth, alpha, beta, is_max,
               order_moves(b), Worst(is_max), Worst(is_max))

\* find_best_move with best_eval starting at 0.
RootFrameFromZero(b, depth) ==
  Frame("find_best_move", b, depth, NegInf, PosInf, TRUE, order_moves(b), 0, 0)

\* find_best_move up to its first loop test.
RootFrame(b, depth) ==
  Frame("find_best_move", b, depth, NegInf, PosInf, TRUE, order_moves(b),
        NegInf, 0)

\* The rest of one iteration of the maximizing loop, after board.pop(),
\* and the loop's exit: by break, or after the last move.
MaxFold(f, eval) ==
  LET max_eval == Max(f.best_eval, eval)
      alpha == Max(f.alpha, eval)
      brk == Cutoff(alpha, f.beta)
      exit == brk \/ f.i = Len(f.moves)
  IN [f EXCEPT !.best_eval = max_eval, !.alpha = alpha,
               !.i = IF exit THEN f.i ELSE f.i + 1,
               !.done = exit, !.value = max_eval,
               !.cutAt = IF f.cutAt = 0 /\ f.beta <= alpha THEN f.i ELSE f.cutAt]

\* The minimizing loop without its break.
MinFoldNoBreak(f, eval) ==
  LET min_eval == Min(f.best_eval, eval)
      beta == Min(f.beta, eval)
      exit == f.i = Len(f.moves)
  IN [f EXCEPT !.best_eval = min_eval, !.beta = beta,
               !.i = IF exit THEN f.i ELSE f.i + 1,
               !.done = exit, !.value = min_eval,
               !.cutAt = IF f.cutAt = 0 /\ beta <= f.alpha THEN f.i ELSE f.cutAt]

\* The same for the minimizing loop.
MinFold(f, eval) ==
  LET min_eval == Min(f.best_eval, eval)
      beta == Min(f.beta, eval)
      brk == Cutoff(f.alpha, beta)
      exit == brk \/ f.i = Len(f.moves)
  IN [f EXCEPT !.best_eval = min_eval, !.beta = beta,
               !.i = IF exit THEN f.i ELSE f.i + 1,
               !.done = exit, !.value = min_eval,
               !.cutAt = IF f.cutAt = 0 /\ beta <= f.alpha THEN f.i ELSE f.cutAt]

\* find_best_move keeping the last of the moves of greatest value (>=).
RootFoldLastWins(f, eval) ==
  LET better == eval >= f.best_eval
      exit == f.i = Len(f.moves)
  IN [f EXCEPT !.best_eval = IF better THEN eval ELSE f.best_eval,
               !.best_move = IF better THEN f.moves[f.i] ELSE f.best_move,
               !.alpha = Max(f.alpha, eval),
               !.i = IF exit THEN f.i ELSE f.i + 1,
               !.done = exit]

\* The rest of one iteration of find_best_move's loop, after board.pop().
RootFold(f, eval) ==
  LET better == eval > f.best_eval
      exit == f.i = Len(f.moves)
  IN [f EXCEPT !.best_eval = IF better THEN eval ELSE f.best_eval,
               !.best_move = IF better THEN f.moves[f.i] ELSE f.best_move,
               !.alpha = Max(f.alpha, eval),
               !.i = IF exit THEN f.i ELSE f.i + 1,
               !.done = exit]

Fold(f, eval) ==
  IF f.fn = "find_best_move" THEN RootFold(f, eval)
  ELSE IF f.is_maximizing THEN MaxFold(f, eval)
  ELSE MinFold(f, eval)

\* board.pop() placed after the cutoff test, so that a break skips it.
BoardAfterChildBreakFirst(b, f, eval) ==
  IF f.fn = "minimax_alpha_beta" /\ Fold(f, eval).cutAt > 0 THEN b ELSE pop(b)

\* The board after the recursive call returned `eval` to frame f: the
\* board.pop() that follows every recursive call.
BoardAfterChild(b, f, eval) == pop(b)

\* ------------------------------------------------------------- Game loop
\* The click handler pushing the move without the legality test.
HandleClickUnchecked(b, selected, clicks, sq, promo) ==
  IF selected = -1
    THEN IF piece_at(b, sq) # 0 /\ piece_color(piece_at(b, sq)) = WHITE
           THEN [board |-> b, selected_square |-> sq, player_clicks |-> <<sq>>]
           ELSE [board |-> b, selected_square |-> selected, player_clicks |-> clicks]
    ELSE LET both == Append(clicks, sq)
             promotes == /\ square_rank(both[2]) \in {0, 7}
                         /\ piece_type(piece_at(b, both[1])) = PAWN
             move == Move(both[1], both[2], IF promotes THEN promo ELSE 0)
         IN [board |-> push(b, move),
             selected_square |-> -1, player_clicks |-> <<>>]

\* The lines of main() from the second click on: the move built from the
\* two clicks (with the promotion piece the player chose), pushed if legal;
\* and the first click, which selects a square holding a white piece.
\* selected_square = -1 is None.
HandleClick(b, selected, clicks, sq, promo) ==
  IF selected = -1
    THEN IF piece_at(b, sq) # 0 /\ piece_color(piece_at(b, sq)) = WHITE
           THEN [board |-> b, selected_square |-> sq, player_clicks |-> <<sq>>]
           ELSE [board |-> b, selected_square |-> selected, player_clicks |-> clicks]
    ELSE LET both == Append(clicks, sq)
             promotes == /\ square_rank(both[2]) \in {0, 7}
                         /\ piece_type(piece_at(b, both[1])) = PAWN
             move == Move(both[1], both[2], IF promotes THEN promo ELSE 0)
         IN [board |-> IF is_legal(b, move) THEN push(b, move) ELSE b,
             selected_square |-> -1, player_clicks |-> <<>>]

VARIABLES
  board,            \* the chess.Board of main()
  selected_square,  \* main()'s selected_square, -1 for None
  player_clicks,    \* main()'s player_clicks
  depth,            \* the depth passed to find_best_move
  pc,               \* where main() is: "loop", "events", "search", "found",
                    \* "over" (the loop ended), "quit"
  frames,           \* the call stack of the search, find_best_move first
  ai_move,          \* main()'s ai_move
  last_click        \* what the last mouse click did: "none" before any click,
                    \* "select", "ignored", "pushed", "discarded"

vars == <<board, selected_square, player_clicks, depth, pc, frames, ai_move,
          last_click>>

Position(ps, turn) ==
  [pieces |-> ps, turn |-> turn, ep_square |-> -1, halfmove_clock |-> 0,
   fullmove_number |-> 1, move_stack |-> <<>>, stack |-> <<>>]

\* The positions a run starts from (squares are rank * 8 + file, a1 = 0).
\* Ka1 / Ka3 Rh8, Black to move: Rh1 mates, Rb8 stalemates.
RookEnding ==
  Position((0 :> KING) @@ (16 :> -KING) @@ (63 :> -ROOK), BLACK)
\* Kg6 Pa7 / Kh8, White to move: a8=Q and a8=R mate, a8=B and a8=N leave
\* insufficient material.
HumanPromotion ==
  Position((46 :> KING) @@ (48 :> PAWN) @@ (63 :> -KING), WHITE)
\* Kh1 Ne1 / Kg3 Pf2, Black to move: promotions on f1 and by capture on e1,
\* with and without check.
EnginePromotion ==
  Position((7 :> KING) @@ (4 :> KNIGHT) @@ (22 :> -KING) @@ (13 :> -PAWN), BLACK)
\* Kh1 Pa2 / Kh8 Pb4, White to move: after a2-a4 Black may capture en passant.
EnPassant ==
  Position((7 :> KING) @@ (8 :> PAWN) @@ (63 :> -KING) @@ (25 :> -PAWN), WHITE)

Positions == {RookEnding, HumanPromotion, EnginePromotion, EnPassant}

Init ==
  /\ board \in Positions
  /\ depth \in 1..MaxDepth
  /\ selected_square = -1
  /\ player_clicks = <<>>
  /\ pc = "loop"
  /\ frames = <<>>
  /\ ai_move = None
  /\ last_click = "none"

\* The model follows a game for MaxPlies moves.
Playing == Len(board.move_stack) < MaxPlies

\* while not board.is_game_over():
LoopTest ==
  /\ pc = "loop"
  /\ Playing
  /\ pc' = IF is_game_over(board) THEN "over" ELSE "events"
  /\ UNCHANGED <<board, selected_square, player_clicks, depth, frames, ai_move,
                 last_click>>

\* pygame.QUIT
Quit ==
  /\ pc = "events"
  /\ pc' = "quit"
  /\ UNCHANGED <<board, selected_square, player_clicks, depth, frames, ai_move,
                 last_click>>

\* The click handler left the state r.
Clicked(r) ==
  /\ board' = r.board
  /\ selected_square' = r.selected_square
  /\ player_clicks' = r.player_clicks
  /\ last_click' = IF selected_square = -1
                     THEN (IF r.selected_square = -1 THEN "ignored" ELSE "select")
                     ELSE (IF r.board = board THEN "discarded" ELSE "pushed")

\* pygame.MOUSEBUTTONDOWN on square sq; promo is what choose_promotion()
\* returns if it is called.
Click(sq, promo) ==
  /\ pc = "events"
  /\ Playing
  /\ board.turn = WHITE
  /\ Clicked(HandleClick(board, selected_square, player_clicks, sq, promo))
  /\ UNCHANGED <<depth, pc, frames, ai_move>>

\* What choose_promotion() can return for a click on sq: one of the four
\* pieces when the dialog is shown (QUEEN also stands for "not asked").
PromotionChoices(sq) ==
  IF /\ selected_square # -1
     /\ square_rank(sq) \in {0, 7}
     /\ piece_type(piece_at(board, selected_square)) = PAWN
    THEN {QUEEN, ROOK, BISHOP, KNIGHT}
    ELSE {QUEEN}

\* The events are exhausted: the engine moves if it is Black's turn,
\* otherwise the frame is drawn and the loop goes round.
EndEvents ==
  /\ pc = "events"
  /\ Playing
  /\ IF ~board.turn
       THEN pc' = "search" /\ frames' = <<RootFrame(board, depth)>>
       ELSE pc' = "loop" /\ frames' = frames
  /\ UNCHANGED <<board, selected_square, player_clicks, depth, ai_move, last_click>>

Top == frames[Len(frames)]

\* The is_maximizing argument of the calls activation f makes: False from
\* find_best_move, not is_maximizing from minimax_alpha_beta.
CalleeMaximizes(f) == IF f.fn = "find_best_move" THEN FALSE ELSE ~f.is_maximizing

\* The top activation tries its next move: board.push(move) and the
\* recursive call, up to the callee's first loop test or its return.
Descend ==
  /\ pc = "search"
  /\ ~Top.done
  /\ board' = push(board, Top.moves[Top.i])
  /\ frames' = Append(
       [frames EXCEPT ![Len(frames)].visited =
          Append(@, board'.move_stack[Len(board'.move_stack)])],
       Enter(board', Top.depth - 1, Top.alpha, Top.beta, CalleeMaximizes(Top)))
  /\ UNCHANGED <<selected_square, player_clicks, depth, pc, ai_move, last_click>>

\* The top activation returned: its caller pops the move and folds the value.
Ascend ==
  /\ pc = "search"
  /\ Len(frames) >= 2
  /\ Top.done
  /\ LET n == Len(frames)
         eval == frames[n].value
         f == frames[n - 1]
         cuts == f.cuts + frames[n].cuts + (IF frames[n].cutAt > 0 THEN 1 ELSE 0)
     IN /\ board' = BoardAfterChild(board, f, eval)
        /\ frames' = Append(SubSeq(frames, 1, n - 2),
                            [Fold(f, eval) EXCEPT !.cuts = cuts])
  /\ UNCHANGED <<selected_square, player_clicks, depth, pc, ai_move, last_click>>

\* find_best_move returns best_move.
Return ==
  /\ pc = "search"
  /\ Len(frames) = 1
  /\ Top.done
  /\ ai_move' = Top.best_move
  /\ pc' = "found"
  /\ UNCHANGED <<board, selected_square, player_clicks, depth, frames, last_click>>

\* if ai_move: board.push(ai_move), and the frame is drawn.
AIPush ==
  /\ pc = "found"
  /\ board' = IF Truthy(ai_move) THEN push(board, ai_move) ELSE board
  /\ pc' = "loop"
  /\ frames' = <<>>
  /\ UNCHANGED <<selected_square, player_clicks, depth, ai_move, last_click>>

Next ==
  \/ LoopTest
  \/ Quit
  \/ \E sq \in SQUARES : \E promo \in PromotionChoices(sq) : Click(sq, promo)
  \/ EndEvents
  \/ Descend
  \/ Ascend
  \/ Return
  \/ AIPush

Spec == Init /\ [][Next]_vars

\* ------------------------------------------------------------ Properties
SetMax(S) == CHOOSE x \in S : \A y \in S : y <= x
SetMin(S) == CHOOSE x \in S : \A y \in S : x <= y

\* Minimax without any cutoff, over the same tree with the same evaluator:
\* the reference of the pruning and root-selection properties.
RECURSIVE Minimax(_, _, _)
Minimax(b, d, is_max) ==
  IF d = 0 \/ is_game_over(b) THEN evaluate_board(b)
  ELSE LET ms == legal_moves(b)
           vals == {Minimax(push(b, ms[i]), d - 1, ~is_max) : i \in 1..Len(ms)}
       IN IF vals = {} THEN (IF is_max THEN NegInf ELSE PosInf)
          ELSE IF is_max THEN SetMax(vals) ELSE SetMin(vals)

Searching == pc \in {"search", "found"}
Root == frames[1]

\* The moves pushed and not yet popped by the activations below the top.
Pending == [k \in 1..(Len(frames) - 1) |-> frames[k].moves[frames[k].i]]

\* C1: whenever an activation of the search has control the board is the
\* board of its call -- every push below it was undone, the pushes of a
\* loop left by break included -- the moves on the move stack above the
\* root's are exactly those of the calls in progress, in call order, and
\* when find_best_move returns the board is the board it was called with.
StackRestored ==
  Searching =>
    /\ board = Top.entry
    /\ board.move_stack = Root.entry.move_stack \o Pending
    /\ Len(board.stack) = Len(board.move_stack)
    /\ pc = "found" => board = Root.entry

\* find_best_move has returned from a search in which loops were left by
\* break, and the board is the board of the call.
StackRestoredWitness ==
  /\ pc = "found"
  /\ Root.cuts > 0
  /\ Len(Root.visited) > 1
  /\ board = Root.entry

\* C2: a minimax_alpha_beta call made with the full window returns the
\* value of minimax without cutoffs on the position and depth of the call.
PruningCorrect ==
  (pc = "search" /\ Top.fn = "minimax_alpha_beta" /\ Top.done
     /\ Top.alpha0 = NegInf /\ Top.beta0 = PosInf)
    => Top.value = Minimax(Top.entry, Top.depth, Top.is_maximizing)

\* A full-window call of depth 2 returned after cutoffs below it.
PruningCorrectWitness ==
  /\ pc = "search"
  /\ Top.fn = "minimax_alpha_beta"
  /\ Top.done
  /\ Top.alpha0 = NegInf /\ Top.beta0 = PosInf
  /\ Top.depth >= 2
  /\ Top.cuts > 0
  /\ Top.value = Minimax(Top.entry, Top.depth, Top.is_maximizing)

\* The root moves that deliver checkmate.
MatingMoves(f) ==
  {i \in 1..Len(f.moves) : is_checkmate(push(f.entry, f.moves[i]))}

\* C4: find_best_move returns None exactly when the position has no legal
\* move and a legal move otherwise (the only one, if there is only one);
\* every value minimax_alpha_beta returns is above -infinity.
MoveOrNone ==
  /\ pc = "found" =>
       LET legal == legal_moves(Root.entry)
       IN /\ ai_move = None <=> legal = <<>>
          /\ ai_move # None => ai_move \in Range(legal)
          /\ Len(legal) = 1 => ai_move = legal[1]
  /\ (pc = "search" /\ Top.fn = "minimax_alpha_beta" /\ Top.done)
       => Top.value > NegInf /\ Top.value < PosInf

\* find_best_move was called on a position without legal moves and
\* returned None.
MoveOrNoneWitness ==
  /\ pc = "found"
  /\ legal_moves(Root.entry) = <<>>
  /\ ai_move = None

\* C5: on every board of the game and of the search, evaluate_board is
\* 9999 in magnitude at checkmate and 0 at stalemate and at insufficient
\* material, whatever the material, mobility and check terms are.
TerminalScores ==
  /\ is_checkmate(board) => Abs(evaluate_board(board)) = 9999
  /\ (is_stalemate(board) \/ is_insufficient_material(board))
       => evaluate_board(board) = 0

\* The search evaluated a stalemate in which the material is not balanced.
TerminalScoresWitness ==
  /\ pc = "search"
  /\ Top.done
  /\ Top.moves = <<>>
  /\ is_stalemate(board)
  /\ Material(board) + Mobility(board) # 0
  /\ Top.value = 0

\* ms is the legal moves of b, each once, in non-increasing heuristic
\* score, moves of equal score in the order of the enumeration.
Ordered(b, ms) ==
  LET legal == legal_moves(b)
      at_legal(m) == CHOOSE i \in 1..Len(legal) : legal[i] = m
      score == [i \in 1..Len(ms) |->
                  (IF is_capture(b, ms[i]) THEN 1000 ELSE 0)
                  + (IF is_check(push(b, ms[i])) THEN 500 ELSE 0)
                  + (IF ms[i].promotion # 0 THEN 800 ELSE 0)]
  IN /\ Len(ms) = Len(legal)
     /\ Range(ms) = Range(legal)
     /\ \A i, j \in 1..Len(ms) : i < j =>
          /\ ms[i] # ms[j]
          /\ score[i] >= score[j]
          /\ score[i] = score[j] => at_legal(ms[i]) < at_legal(ms[j])

\* An activation that went past the base case called order_moves.
CalledOrderMoves(f) ==
  f.fn = "find_best_move" \/ (f.depth > 0 /\ ~is_game_over(f.entry))

\* The activation in control has just called order_moves.
JustOrdered ==
  pc = "search" /\ Top.visited = <<>> /\ CalledOrderMoves(Top)

\* C6: the moves order_moves returned to the activation that called it are
\* a permutation of the legal moves, sorted by descending score, stably.
MoveOrdering == JustOrdered => Ordered(Top.entry, Top.moves)

\* order_moves sorted moves of four different scores, with ties, into an
\* order that is not the enumeration's.
MoveOrderingWitness ==
  /\ JustOrdered
  /\ Top.moves # legal_moves(Top.entry)
  /\ Cardinality({move_score(Top.entry, Top.moves[i]) :
                    i \in 1..Len(Top.moves)}) >= 4
  /\ \E i \in 1..(Len(Top.moves) - 1) :
       move_score(Top.entry, Top.moves[i])
         = move_score(Top.entry, Top.moves[i + 1])
  /\ Ordered(Top.entry, Top.moves)

\* A step changes the board only by pushing a move that is legal on it or,
\* in the search, by popping the last move; a second click that does not
\* push leaves the board as it was.
LegalStep ==
  board' # board =>
    \/ /\ Len(board'.move_stack) = Len(board.move_stack) + 1
       /\ LET m == board'.move_stack[Len(board'.move_stack)]
          IN is_legal(board, m) /\ board' = push(board, m)
    \/ /\ pc = "search"
       /\ board.move_stack # <<>>
       /\ board' = pop(board)

\* C7: only legal moves are pushed, by the human and by the engine.
OnlyLegalMoves == [][LegalStep]_vars

\* The human's second click built a move that is not legal: it was
\* discarded, after a move had been played.
OnlyLegalMovesWitness ==
  /\ last_click = "discarded"
  /\ board.move_stack # <<>>
  /\ pc = "events"

\* The exact value of each root move: minimax without cutoffs at depth - 1.
Exact(f) ==
  [i \in 1..Len(f.moves) |->
     Minimax(push(f.entry, f.moves[i]), f.depth - 1, FALSE)]

\* C3: when a root move mates, find_best_move returns a mating move, and
\* the value of that move is the greatest of the root moves' values.
MateInOne ==
  (pc = "found" /\ MatingMoves(Root) # {})
    => \E i \in MatingMoves(Root) :
         /\ ai_move = Root.moves[i]
         /\ \A j \in 1..Len(Root.moves) : Exact(Root)[j] <= Exact(Root)[i]

\* C8: find_best_move searched every root move and returns the first move,
\* in order_moves order, whose exact minimax value at depth - 1 is greatest.
RootSelection ==
  pc = "found" =>
    LET f == Root
        exact == Exact(f)
    IN /\ f.moves = order_moves(f.entry)
       /\ f.visited = f.moves
       /\ f.moves # <<>> =>
            \E k \in 1..Len(f.moves) :
              /\ ai_move = f.moves[k]
              /\ \A j \in 1..Len(f.moves) : exact[j] <= exact[k]
              /\ \A j \in 1..(k - 1) : exact[j] < exact[k]

\* find_best_move returned a move that is not the first root move, and a
\* later root move has the same exact value.
RootSelectionWitness ==
  /\ pc = "found"
  /\ ai_move # None
  /\ ai_move # Root.moves[1]
  /\ \E k, j \in 1..Len(Root.moves) :
       /\ ai_move = Root.moves[k]
       /\ j > k
       /\ Exact(Root)[j] = Exact(Root)[k]

\* The score without the check term, from the side to move's perspective.
ScoreWithoutCheck(b) ==
  LET eval == Material(b) + Mobility(b)
  IN IF b.turn THEN eval ELSE -eval

NonTerminal(b) ==
  ~is_checkmate(b) /\ ~is_stalemate(b) /\ ~is_insufficient_material(b)

\* C9: on a non-terminal board whose side to move is in check, the score
\* is 50 lower than the same material and mobility give without the check.
CheckIsUnfavourable ==
  (NonTerminal(board) /\ is_check(board))
    => evaluate_board(board) = ScoreWithoutCheck(board) - 50

\* C10: the moves an activation loops over are those order_moves returned
\* to it; every activation pushed them in that order, one after the other,
\* and once beta <= alpha held after a fold it pushed no other move and
\* returned.
VisitOrder ==
  /\ JustOrdered => Top.moves = order_moves(Top.entry)
  /\ Searching =>
       \A k \in 1..Len(frames) :
         LET f == frames[k]
         IN /\ f.visited = SubSeq(f.moves, 1, Len(f.visited))
            /\ Len(f.visited) =
                 IF k < Len(frames) \/ (f.done /\ f.moves # <<>>) THEN f.i
                 ELSE f.i - 1
            /\ f.cutAt > 0 => f.done /\ Len(f.visited) = f.cutAt

\* An activation returned after a cutoff that left siblings unvisited.
VisitOrderWitness ==
  /\ pc = "search"
  /\ Top.done
  /\ Top.cutAt > 0
  /\ Top.cutAt < Len(Top.moves)
  /\ Len(Top.visited) = Top.cutAt

====
